---- MODULE Spec2Model ----
(***************************************************************************)
(* The offline caching layer of the Friday Saga site: the service worker   *)
(* sw.js (install / activate / fetch listeners) over the browser's         *)
(* CacheStorage, together with the deployments that replace one worker by  *)
(* the next.                                                               *)
(*                                                                         *)
(* A URL is a sequence of tokens: the path segments, then, when the URL    *)
(* has a query string, the token "?" followed by the query.  So            *)
(*   /data/characters.json?_t=1  is  <<"data","characters.json","?","_t=1">>*)
(* and / is <<>>.  A cache (a generation) is keyed by the whole URL, as    *)
(* Cache.put / Cache.match are when no ignoreSearch option is given.       *)
(***************************************************************************)
EXTENDS Naturals, Sequences, FiniteSets, TLC

\* ------------------------------------------------------------------ bounds
\* Fetch events dispatched in one behaviour.
MaxRequests == 2
\* Distinct bodies the server may answer with for one path.
MaxContent == 1
\* Deployments after the first one (each changes a version token).
MaxDeploys == 1
\* Path segments of the URLs the router is tried on.
MaxSegments == 3
\* Fetch events dispatched in one behaviour under the fair scheduling.
MaxLiveRequests == 1
\* Activate events dispatched to one worker.
MaxRuns == 2
\* loadData calls the page makes.
MaxCalls == 3
\* Requests the page makes for one data file, each at a later time.
MaxStamps == 5

\* ---------------------------------------------------------------- manifest
\* The version tokens of the deployed script ('...-v2' in both names).
FirstToken == 2

CacheName(prefix, v) == <<prefix, v>>

\* const CACHE_NAME = 'friday-saga-v2', for a script with tokens t.
CACHE_NAME(t) == CacheName("friday-saga", t.data)

\* const STATIC_CACHE_NAME = 'friday-saga-static-v2', for a script with tokens t.
STATIC_CACHE_NAME(t) == CacheName("friday-saga-static", t.static)

urlsToCache ==
    << <<>>,
       <<"index.html">>,
       <<"styles.css">>,
       <<"js", "main.js">>,
       <<"js", "modules", "Animations.js">>,
       <<"js", "modules", "ContentRenderer.js">>,
       <<"js", "modules", "DataLoader.js">>,
       <<"js", "modules", "TabManager.js">>,
       <<"js", "modules", "VideoLoader.js">>,
       <<"js", "modules", "YouTubeEmbed.js">>,
       <<"favicon.ico">>,
       <<"favicon.svg">>,
       <<"icon-192.png">>,
       <<"icon-512.png">> >>

DATA_FILES ==
    << <<"data", "characters.json">>,
       <<"data", "jokes.json">>,
       <<"data", "themes.json">>,
       <<"data", "videos.json">> >>

\* The earlier revision of the worker: one generation, 'friday-saga-v1',
\* precached with the static files and the data files alike.
LegacyName == CacheName("friday-saga", 1)

LegacyUrls == urlsToCache \o DATA_FILES

Range(s) == {s[i] : i \in 1..Len(s)}

\* ---------------------------------------------------------------- URLs
HasSearch(href) == \E i \in 1..Len(href) : href[i] = "?"

\* new URL(event.request.url).pathname: the URL up to its query string.
Pathname(href) ==
    IF HasSearch(href)
    THEN SubSeq(href, 1, (CHOOSE i \in 1..Len(href) :
                             /\ href[i] = "?"
                             /\ \A j \in 1..(i - 1) : href[j] # "?") - 1)
    ELSE href

IsPrefix(p, s) == Len(p) <= Len(s) /\ SubSeq(s, 1, Len(p)) = p

\* Faulty variant: a path beginning with a data path counts as a data file.
IsDataFilePrefix(href) ==
    \E i \in 1..Len(DATA_FILES) : IsPrefix(DATA_FILES[i], Pathname(href))

\* DATA_FILES.some(dataPath => url.pathname === dataPath)
IsDataFile(href) ==
    \E i \in 1..Len(DATA_FILES) : Pathname(href) = DATA_FILES[i]

\* The branch of the fetch listener a request takes.
Route(href) == IF IsDataFile(href) THEN "data" ELSE "static"

\* ------------------------------------------------------------ responses
\* No value: undefined in the script.
None == [status |-> 0]

\* A response of the server: 200 with one of its bodies for the path.
Ok(href, v) == [status |-> 200, body |-> <<Pathname(href), v>>]

\* A response of the server that is not OK.
NotFound(href) == [status |-> 404, body |-> <<Pathname(href), 0>>]

\* new Response('Offline', { status: 503 })
Offline == [status |-> 503, body |-> "Offline"]

\* respondWith settled with undefined: the caller's fetch fails.
Failure == [status |-> 0, body |-> "network error"]

\* What fetch(event.request) may resolve with.
NetResponses(href) == {Ok(href, v) : v \in 1..MaxContent} \cup {NotFound(href)}

\* ---------------------------------------------------------- request inputs
IndexHref == <<"index.html">>

DataHref == <<"data", "characters.json">>

\* The requests the pages issue: URL and request.destination.  DataLoader
\* appends ?_t=<now> to every data URL, and its earlier revision, which the
\* earlier worker may still serve, fetches the bare path; "/about" is a page
\* the manifest does not list.
Requests ==
    { [href |-> IndexHref, dest |-> "document"],
      [href |-> <<"styles.css">>, dest |-> "style"],
      [href |-> <<"about">>, dest |-> "document"],
      [href |-> DataHref, dest |-> ""],
      [href |-> DataHref \o <<"?", "_t=1">>, dest |-> ""],
      [href |-> DataHref \o <<"?", "_t=2">>, dest |-> ""] }

\* ------------------------------------------------------------ CacheStorage
\* A cache: its name and its entries, a function from the URLs it holds an
\* entry for to the responses stored.
NoEntries == [k \in {} |-> None]

NewCache(name) == [name |-> name, entries |-> NoEntries]

CacheNames(st) == {st[i].name : i \in 1..Len(st)}

HasCache(st, name) == name \in CacheNames(st)

IndexOf(st, name) == CHOOSE i \in 1..Len(st) : st[i].name = name

\* The entries of the cache called name (none when there is no such cache).
EntriesOf(st, name) ==
    IF HasCache(st, name) THEN st[IndexOf(st, name)].entries ELSE NoEntries

\* cache.match(request) on one cache: the entry under exactly that URL.
CacheMatch(entries, href) ==
    IF href \in DOMAIN entries THEN entries[href] ELSE None

\* caches.keys(): the names, in the order the caches were created.
StorageKeys(st) == [i \in 1..Len(st) |-> st[i].name]

\* caches.open(name): the cache is created, last in the order, when missing.
StorageOpen(st, name) ==
    IF HasCache(st, name) THEN st ELSE Append(st, NewCache(name))

\* Faulty variant: the cache is emptied and stays in the store.
StorageDeleteEntries(st, name) ==
    [i \in 1..Len(st) |->
        IF st[i].name = name THEN NewCache(name) ELSE st[i]]

\* caches.delete(name)
StorageDelete(st, name) == SelectSeq(st, LAMBDA c : c.name # name)

\* cache.put(request, response) on the cache called name: the entry under the
\* request's URL is added or replaced.
CachePut(st, name, href, r) ==
    [st EXCEPT ![IndexOf(st, name)].entries = (href :> r) @@ @]

\* Faulty variant: the lookup ignores the query string (ignoreSearch: true).
StorageMatchIgnoreSearch(st, href) ==
    LET hits == {i \in 1..Len(st) :
                    \E k \in DOMAIN st[i].entries : Pathname(k) = Pathname(href)}
    IN  IF hits = {} THEN None
        ELSE LET c == st[CHOOSE i \in hits : \A j \in hits : i <= j]
             IN  c.entries[CHOOSE k \in DOMAIN c.entries :
                              Pathname(k) = Pathname(href)]

\* caches.match(request): the entry of the first cache, in creation order,
\* that holds one under the request's URL; undefined (None) when none does.
StorageMatch(st, href) ==
    LET hits == {i \in 1..Len(st) : href \in DOMAIN st[i].entries}
    IN  IF hits = {} THEN None
        ELSE st[CHOOSE i \in hits : \A j \in hits : i <= j].entries[href]

\* One put for each URL of the list, each storing the server's answer for it.
PutAll(st, name, urls, v) ==
    [st EXCEPT ![IndexOf(st, name)].entries =
                   [k \in Range(urls) |-> Ok(k, v)] @@ @]

\* Faulty variant: only the first URL of the list is stored.
CacheAddAllFirstOnly(st, name, urls, v) ==
    CachePut(st, name, Head(urls), Ok(Head(urls), v))

\* cache.addAll(urls) when every fetch answered OK: all entries are stored.
CacheAddAll(st, name, urls, v) == PutAll(st, name, urls, v)

\* ------------------------------------------------------------------ state
VARIABLES
    store,   \* CacheStorage: the caches, in the order they were created
    sw,      \* the newest worker of the registration and where its lifecycle is
    active,  \* the tokens of the worker that last finished activating, if any
    reqs,    \* the fetch events dispatched so far, each with its handler's state
    loader   \* the page's DataLoader: clock, cache, timestamps, current call

vars == <<store, sw, active, reqs, loader>>

NoTokens == [static |-> 0, data |-> 0]

Tokens(s, d) == [static |-> s, data |-> d]

\* A worker at the start of its install event.  log is what the worker has
\* written to the console, runs the number of activate events it was sent.
NewWorker(t, n) ==
    [t |-> t, n |-> n, phase |-> "install", populated |-> FALSE,
     toDelete |-> {}, failed |-> {}, claimed |-> FALSE, log |-> {},
     runs |-> 0]

\* new DataLoader(): both maps empty, no call made.  now is the last value
\* Date.now() returned, calls the number of loadData calls made, call the
\* loadData call that is waiting for its fetch, response and ret what the
\* last call that settled received and how it ended.
NewLoader ==
    [now |-> 1, calls |-> 0, cache |-> NoEntries,
     cacheTimestamps |-> NoEntries,
     call |-> [pc |-> "idle", req |-> 0], response |-> None,
     ret |-> [kind |-> "none"]]

\* The store the earlier revision leaves behind.
LegacyStore == <<[name |-> LegacyName,
                   entries |-> [k \in Range(LegacyUrls) |-> Ok(k, 0)]]>>

\* The script is registered on a browser that never ran a worker of the site,
\* or on one that ran the earlier revision.
Init ==
    /\ store \in {<<>>, LegacyStore}
    /\ sw = NewWorker(Tokens(FirstToken, FirstToken), 0)
    /\ active = NoTokens
    /\ reqs = <<>>
    /\ loader = NewLoader

\* --------------------------------------------------------------- lifecycle
\* install listener, caches.open(STATIC_CACHE_NAME) resolves.
InstallOpen ==
    /\ sw.phase = "install"
    /\ store' = StorageOpen(store, STATIC_CACHE_NAME(sw.t))
    /\ sw' = [sw EXCEPT !.phase = "addAll"]
    /\ UNCHANGED <<active, reqs, loader>>

\* install listener, cache.addAll(urlsToCache) resolves: every URL was fetched
\* with an OK answer and all of them are stored.
InstallAddAllOk ==
    /\ sw.phase = "addAll"
    /\ \E v \in 1..MaxContent :
          store' = CacheAddAll(store, STATIC_CACHE_NAME(sw.t), urlsToCache, v)
    /\ sw' = [sw EXCEPT !.phase = "installed", !.populated = TRUE]
    /\ UNCHANGED <<active, reqs, loader>>

\* Faulty variant: the rejection is not caught, the promise given to
\* event.waitUntil rejects and the install fails: the worker is discarded.
InstallAddAllFailPropagates ==
    /\ sw.phase = "addAll"
    /\ sw' = [sw EXCEPT !.phase = "redundant"]
    /\ UNCHANGED <<store, active, reqs, loader>>

\* install listener, cache.addAll rejects (a fetch failed or was not OK):
\* nothing is stored, .catch logs it and the install event still succeeds.
InstallAddAllFail ==
    /\ sw.phase = "addAll"
    /\ sw' = [sw EXCEPT !.phase = "installed", !.log = @ \cup {"Cache failed"}]
    /\ UNCHANGED <<store, active, reqs, loader>>

\* Faulty variant: the activate listener of the earlier revision, which keeps
\* one name only.
IsStaleNameLegacy(t, cacheName) == cacheName # CACHE_NAME(t)

\* Faulty variant: only the static name is kept.
IsStaleNameStaticOnly(t, cacheName) == cacheName # STATIC_CACHE_NAME(t)

\* cacheName !== CACHE_NAME && cacheName !== STATIC_CACHE_NAME
IsStaleName(t, cacheName) ==
    cacheName # CACHE_NAME(t) /\ cacheName # STATIC_CACHE_NAME(t)

\* Faulty variant: self.clients.claim() is not called when the listener
\* starts but left for after the cleanup.
ActivateStartClaimLast ==
    /\ sw.phase = "installed"
    /\ sw' = [sw EXCEPT !.phase = "activate", !.runs = @ + 1]
    /\ UNCHANGED <<store, active, reqs, loader>>

\* Faulty variant: the request to skip waiting takes effect when it is made,
\* before the promise given to the install event's waitUntil has settled.
ActivateStartOnSkipWaiting ==
    /\ sw.phase \in {"install", "addAll", "installed"}
    /\ sw' = [sw EXCEPT !.phase = "activate", !.claimed = TRUE,
                        !.runs = @ + 1]
    /\ UNCHANGED <<store, active, reqs, loader>>

\* Faulty variant: self.skipWaiting() is not called, and the worker waits
\* until no context is controlled by the previous version.
ActivateStartWhenReleased ==
    /\ sw.phase = "installed"
    /\ active = NoTokens
    /\ sw' = [sw EXCEPT !.phase = "activate", !.claimed = TRUE,
                        !.runs = @ + 1]
    /\ UNCHANGED <<store, active, reqs, loader>>

\* self.skipWaiting() was called in the install listener: the worker becomes
\* the active one at once.  The activate listener runs: caches.keys() is
\* requested and self.clients.claim() is called.
ActivateStart ==
    /\ sw.phase = "installed"
    /\ sw' = [sw EXCEPT !.phase = "activate", !.claimed = TRUE,
                        !.runs = @ + 1]
    /\ UNCHANGED <<store, active, reqs, loader>>

\* activate listener, caches.keys() resolves: a delete is requested for every
\* name that is neither of the two current names.
ActivateKeys ==
    /\ sw.phase = "activate"
    /\ sw' = [sw EXCEPT !.phase = "deleting",
                        !.toDelete = {n \in Range(StorageKeys(store)) :
                                         IsStaleName(sw.t, n)}]
    /\ UNCHANGED <<store, active, reqs, loader>>

\* A cache that is deleted takes the pending writes of its handles with it:
\* a put on a handle of a deleted cache is not seen by any later lookup.
OrphanWrites(rs, name) ==
    [i \in 1..Len(rs) |->
        IF rs[i].write = "put" /\ rs[i].writeTo = name
        THEN [rs[i] EXCEPT !.write = "lost"]
        ELSE rs[i]]

\* activate listener, one caches.delete(cacheName) resolves.  The deletes
\* were all requested when caches.keys() resolved and each settles on its
\* own, also after the worker has been activated.
ActivateDelete(name) ==
    /\ sw.phase \in {"deleting", "activated"}
    /\ name \in sw.toDelete
    /\ store' = StorageDelete(store, name)
    /\ reqs' = OrphanWrites(reqs, name)
    /\ sw' = [sw EXCEPT !.toDelete = @ \ {name}]
    /\ UNCHANGED <<active, loader>>

\* activate listener, one caches.delete(cacheName) rejects: the cache stays.
\* The listener has no .catch: nothing is logged.
ActivateDeleteFail(name) ==
    /\ sw.phase \in {"deleting", "activated"}
    /\ name \in sw.toDelete
    /\ sw' = [sw EXCEPT !.toDelete = @ \ {name}, !.failed = @ \cup {name}]
    /\ UNCHANGED <<store, active, reqs, loader>>

\* The promise given to event.waitUntil settles and the worker is activated,
\* whether or not a delete failed: Promise.all resolves when every delete
\* has resolved and rejects as soon as one delete has rejected.
ActivateDone ==
    /\ sw.phase = "deleting"
    /\ sw.toDelete = {} \/ sw.failed # {}
    /\ sw' = [sw EXCEPT !.phase = "activated"]
    /\ active' = sw.t
    /\ UNCHANGED <<store, reqs, loader>>

\* The activate event is dispatched once more to the worker that is
\* activated, every delete of the run before settled and no install in
\* between: the listener runs again, from caches.keys().
ActivateAgain ==
    /\ sw.phase = "activated"
    /\ sw.toDelete = {}
    /\ sw.runs < MaxRuns
    /\ sw' = [sw EXCEPT !.phase = "activate", !.failed = {},
                        !.runs = @ + 1]
    /\ UNCHANGED <<store, active, reqs, loader>>

\* A new script is deployed with one of the two version tokens changed, and
\* the registration starts installing it.
Deploy(t) ==
    /\ sw.phase = "activated"
    /\ sw.toDelete = {}
    /\ sw.n < MaxDeploys
    /\ t.static \in {sw.t.static, sw.t.static + 1}
    /\ t.data \in {sw.t.data, sw.t.data + 1}
    /\ (t.static = sw.t.static) # (t.data = sw.t.data)
    /\ sw' = NewWorker(t, sw.n + 1)
    /\ UNCHANGED <<store, active, reqs, loader>>

\* ------------------------------------------------------------ fetch events
\* The number of handlers that have received a response from the network.
Received(rs) == Cardinality({j \in 1..Len(rs) : rs[j].fetch = "resolved"})

\* The handler of a fetch event that has just been dispatched to the worker
\* with tokens t; seq is the place of its network response among those the
\* handlers received, 0 while it has received none.  The data branch starts
\* with fetch(event.request), the
\* static branch with caches.match(event.request).
NewRequest(r, t) ==
    [href |-> r.href, dest |-> r.dest, t |-> t, policy |-> Route(r.href),
     pc |-> IF Route(r.href) = "data" THEN "fetch" ELSE "match",
     fetch |-> IF Route(r.href) = "data" THEN "pending" ELSE "none",
     net |-> None, resp |-> None, write |-> "none", writeTo |-> <<>>,
     seq |-> 0]

\* A page issues a request and the fetch listener of the active worker runs.
\* While a newer worker is activating, fetch events wait for it.
Dispatch(r) ==
    /\ Len(reqs) < MaxRequests
    /\ active # NoTokens
    /\ sw.phase \notin {"activate", "deleting"}
    /\ reqs' = Append(reqs, NewRequest(r, active))
    /\ UNCHANGED <<store, sw, active, loader>>

\* Faulty variant: .then starts the write and returns nothing.
DataFetchResolveNoReturn(i, r) ==
    /\ reqs[i].policy = "data"
    /\ reqs[i].pc = "fetch"
    /\ r \in NetResponses(reqs[i].href)
    /\ reqs' = [reqs EXCEPT ![i].pc = "done", ![i].fetch = "resolved",
                            ![i].net = r, ![i].resp = Failure,
                            ![i].seq = Received(reqs) + 1,
                            ![i].write = "open",
                            ![i].writeTo = CACHE_NAME(reqs[i].t)]
    /\ UNCHANGED <<store, sw, active, loader>>

\* Faulty variant: the response is returned only when the write has been
\* made (the put is awaited).
DataFetchResolveAwaitsWrite(i, r) ==
    /\ reqs[i].policy = "data"
    /\ reqs[i].pc = "fetch"
    /\ r \in NetResponses(reqs[i].href)
    /\ store' = CachePut(StorageOpen(store, CACHE_NAME(reqs[i].t)),
                         CACHE_NAME(reqs[i].t), reqs[i].href, r)
    /\ reqs' = [reqs EXCEPT ![i].pc = "done", ![i].fetch = "resolved",
                            ![i].net = r, ![i].resp = r,
                            ![i].seq = Received(reqs) + 1,
                            ![i].write = "done",
                            ![i].writeTo = CACHE_NAME(reqs[i].t)]
    /\ UNCHANGED <<sw, active, loader>>

\* Data branch, fetch resolves: .then clones the response, starts
\* caches.open(CACHE_NAME) without waiting for it, and returns the response.
DataFetchResolve(i, r) ==
    /\ reqs[i].policy = "data"
    /\ reqs[i].pc = "fetch"
    /\ r \in NetResponses(reqs[i].href)
    /\ reqs' = [reqs EXCEPT ![i].pc = "done", ![i].fetch = "resolved",
                            ![i].net = r, ![i].resp = r,
                            ![i].seq = Received(reqs) + 1,
                            ![i].write = "open",
                            ![i].writeTo = CACHE_NAME(reqs[i].t)]
    /\ UNCHANGED <<store, sw, active, loader>>

\* Data branch, fetch rejects: .catch asks caches.match(event.request).
DataFetchReject(i) ==
    /\ reqs[i].policy = "data"
    /\ reqs[i].pc = "fetch"
    /\ reqs' = [reqs EXCEPT ![i].pc = "catch", ![i].fetch = "rejected"]
    /\ UNCHANGED <<store, sw, active, loader>>

\* Faulty variant: the fallback response is left out.
OrOfflineMissing(cachedResponse) == cachedResponse

\* cachedResponse || new Response('Offline', { status: 503 })
OrOffline(cachedResponse) ==
    IF cachedResponse # None THEN cachedResponse ELSE Offline

\* Data branch, caches.match resolves in .catch.
DataCatchMatch(i) ==
    /\ reqs[i].policy = "data"
    /\ reqs[i].pc = "catch"
    /\ reqs' = [reqs EXCEPT ![i].pc = "done",
                            ![i].resp = OrOffline(StorageMatch(store, reqs[i].href))]
    /\ UNCHANGED <<store, sw, active, loader>>

\* Faulty variant: the handlers run one after the other, a lookup waits
\* until every request received before it has been answered.
StaticMatchSerialised(i) ==
    /\ reqs[i].policy = "static"
    /\ reqs[i].pc = "match"
    /\ \A j \in 1..(i - 1) : reqs[j].pc = "done"
    /\ LET response == StorageMatch(store, reqs[i].href)
       IN  reqs' = IF response # None
                   THEN [reqs EXCEPT ![i].pc = "done", ![i].resp = response]
                   ELSE [reqs EXCEPT ![i].pc = "fetch",
                                     ![i].fetch = "pending"]
    /\ UNCHANGED <<store, sw, active, loader>>

\* Static branch, caches.match(event.request) resolves: a hit is returned,
\* a miss goes on to fetch(event.request).
StaticMatch(i) ==
    /\ reqs[i].policy = "static"
    /\ reqs[i].pc = "match"
    /\ LET response == StorageMatch(store, reqs[i].href)
       IN  reqs' = IF response # None
                   THEN [reqs EXCEPT ![i].pc = "done", ![i].resp = response]
                   ELSE [reqs EXCEPT ![i].pc = "fetch", ![i].fetch = "pending"]
    /\ UNCHANGED <<store, sw, active, loader>>

\* Faulty variant: the response is returned and nothing is stored, as in the
\* earlier revision of the listener.
StaticFetchResolveNoWrite(i, r) ==
    /\ reqs[i].policy = "static"
    /\ reqs[i].pc = "fetch"
    /\ r \in NetResponses(reqs[i].href)
    /\ reqs' = [reqs EXCEPT ![i].pc = "done", ![i].fetch = "resolved",
                            ![i].net = r, ![i].resp = r,
                            ![i].seq = Received(reqs) + 1]
    /\ UNCHANGED <<store, sw, active, loader>>

\* Static branch, fetch resolves: the response is cloned, caches.open(
\* STATIC_CACHE_NAME) is started without waiting, the response is returned.
StaticFetchResolve(i, r) ==
    /\ reqs[i].policy = "static"
    /\ reqs[i].pc = "fetch"
    /\ r \in NetResponses(reqs[i].href)
    /\ reqs' = [reqs EXCEPT ![i].pc = "done", ![i].fetch = "resolved",
                            ![i].net = r, ![i].resp = r,
                            ![i].seq = Received(reqs) + 1,
                            ![i].write = "open",
                            ![i].writeTo = STATIC_CACHE_NAME(reqs[i].t)]
    /\ UNCHANGED <<store, sw, active, loader>>

\* Faulty variant: the offline page is tried whatever the destination.
StaticFetchRejectAnyDestination(i) ==
    /\ reqs[i].policy = "static"
    /\ reqs[i].pc = "fetch"
    /\ reqs' = [reqs EXCEPT ![i].pc = "shell", ![i].fetch = "rejected"]
    /\ UNCHANGED <<store, sw, active, loader>>

\* Static branch, fetch rejects: .catch asks caches.match('/index.html') for a
\* document and returns undefined for anything else.
StaticFetchReject(i) ==
    /\ reqs[i].policy = "static"
    /\ reqs[i].pc = "fetch"
    /\ reqs' = IF reqs[i].dest = "document"
               THEN [reqs EXCEPT ![i].pc = "shell", ![i].fetch = "rejected"]
               ELSE [reqs EXCEPT ![i].pc = "done", ![i].fetch = "rejected",
                                 ![i].resp = Failure]
    /\ UNCHANGED <<store, sw, active, loader>>

\* What respondWith makes of the value the handler settles with: undefined is
\* no response, and the caller's fetch fails.
Respond(value) == IF value # None THEN value ELSE Failure

\* Faulty variant: the request itself is looked up, not '/index.html'.
StaticShellMatchRequest(i) ==
    /\ reqs[i].policy = "static"
    /\ reqs[i].pc = "shell"
    /\ reqs' = [reqs EXCEPT ![i].pc = "done",
                            ![i].resp = Respond(StorageMatch(store, reqs[i].href))]
    /\ UNCHANGED <<store, sw, active, loader>>

\* Faulty variant: the page returned in place of the document is also stored
\* under the request's URL.
StaticShellMatchStores(i) ==
    /\ reqs[i].policy = "static"
    /\ reqs[i].pc = "shell"
    /\ reqs' = [reqs EXCEPT ![i].pc = "done",
                            ![i].resp = Respond(StorageMatch(store, IndexHref))]
    /\ store' = IF StorageMatch(store, IndexHref) = None THEN store
                 ELSE CachePut(StorageOpen(store, STATIC_CACHE_NAME(reqs[i].t)),
                               STATIC_CACHE_NAME(reqs[i].t), reqs[i].href,
                               StorageMatch(store, IndexHref))
    /\ UNCHANGED <<sw, active, loader>>

\* Static branch, caches.match('/index.html') resolves in .catch.
StaticShellMatch(i) ==
    /\ reqs[i].policy = "static"
    /\ reqs[i].pc = "shell"
    /\ reqs' = [reqs EXCEPT ![i].pc = "done",
                            ![i].resp = Respond(StorageMatch(store, IndexHref))]
    /\ UNCHANGED <<store, sw, active, loader>>

\* The detached write, caches.open(name) resolves: the cache exists from now.
WriteOpen(i) ==
    /\ reqs[i].write = "open"
    /\ store' = StorageOpen(store, reqs[i].writeTo)
    /\ reqs' = [reqs EXCEPT ![i].write = "put"]
    /\ UNCHANGED <<sw, active, loader>>

\* Faulty variant: the put keeps the entry the cache already holds under
\* the URL.
WritePutIfAbsent(i) ==
    /\ reqs[i].write = "put"
    /\ store' = IF CacheMatch(EntriesOf(store, reqs[i].writeTo),
                              reqs[i].href) = None
                 THEN CachePut(store, reqs[i].writeTo, reqs[i].href,
                               reqs[i].net)
                 ELSE store
    /\ reqs' = [reqs EXCEPT ![i].write = "done"]
    /\ UNCHANGED <<sw, active, loader>>

\* Faulty variant: the put resolves and stores nothing.
WritePutNothing(i) ==
    /\ reqs[i].write = "put"
    /\ reqs' = [reqs EXCEPT ![i].write = "done"]
    /\ UNCHANGED <<store, sw, active, loader>>

\* The detached write, cache.put(event.request, responseToCache) completes.
WritePut(i) ==
    /\ reqs[i].write = "put"
    /\ store' = CachePut(store, reqs[i].writeTo, reqs[i].href, reqs[i].net)
    /\ reqs' = [reqs EXCEPT ![i].write = "done"]
    /\ UNCHANGED <<sw, active, loader>>

\* The detached write, cache.put rejects (the quota is exceeded): nobody
\* awaits it and nothing is stored.
WritePutFail(i) ==
    /\ reqs[i].write = "put"
    /\ reqs' = [reqs EXCEPT ![i].write = "failed"]
    /\ UNCHANGED <<store, sw, active, loader>>

\* --------------------------------------------------------------- behaviour
\* ---------------------------------------------------------------- DataLoader
\* this.CACHE_DURATION = 5 * 60 * 1000, in milliseconds.
CACHE_DURATION == 5 * 60 * 1000

\* The file the page loads: this.dataLoader.loadData('data/characters.json').
FilePath == DataHref

\* The time between two readings of Date.now(), in milliseconds: the next
\* call comes right away or when the cached value is no longer fresh.
Delays == {1, CACHE_DURATION}

\* url.searchParams.set('_t', now.toString()); url.toString()
LoaderUrl(filePath, now) == filePath \o <<"?", "_t=" \o ToString(now)>>

\* The cached value is used: there is one, its timestamp is not 0 and it is
\* younger than CACHE_DURATION.
IsFresh(l, filePath, now) ==
    /\ filePath \in DOMAIN l.cache
    /\ l.cacheTimestamps[filePath] # 0
    /\ now - l.cacheTimestamps[filePath] < CACHE_DURATION

\* return value / throw error
Return(data) == [kind |-> "return", data |-> data]

Throw == [kind |-> "throw"]

\* Faulty variant: after a failure the cached value is returned only while
\* it is fresh.
LoadCatchFreshOnly(l, filePath) ==
    IF IsFresh(l, filePath, l.now)
    THEN Return(l.cache[filePath])
    ELSE Throw

\* The catch block: the cached value, however old, when there is one, the
\* error thrown again otherwise.
LoadCatch(l, filePath) ==
    IF filePath \in DOMAIN l.cache
    THEN Return(l.cache[filePath])
    ELSE Throw

\* The rest of loadData once fetch has settled with response (Failure when
\* it rejected): an OK response is parsed, stored with the time the call
\* read and returned; anything else goes to the catch block.
LoadSettled(l, filePath, response) ==
    IF response.status = 200
    THEN [l EXCEPT !.cache = (filePath :> response.body) @@ @,
                   !.cacheTimestamps = (filePath :> l.now) @@ @,
                   !.call = [pc |-> "idle", req |-> 0],
                   !.response = response,
                   !.ret = Return(response.body)]
    ELSE [l EXCEPT !.call = [pc |-> "idle", req |-> 0],
                   !.response = response,
                   !.ret = LoadCatch(l, filePath)]

\* loadData(filePath, forceRefresh) is called, delay after the last reading
\* of the clock: a fresh cached value is returned at once; otherwise the URL
\* gets ?_t=<now> and fetch is called, which the worker's fetch listener
\* handles when the page is controlled.
LoadData(forceRefresh, delay) ==
    /\ loader.call.pc = "idle"
    /\ loader.calls < MaxCalls
    /\ active # NoTokens => sw.phase \notin {"activate", "deleting"}
    /\ LET now == loader.now + delay
           l   == [loader EXCEPT !.now = now, !.calls = @ + 1]
       IN  IF ~forceRefresh /\ IsFresh(l, FilePath, now)
           THEN /\ loader' = [l EXCEPT !.response = None,
                                       !.ret = Return(l.cache[FilePath])]
                /\ reqs' = reqs
           ELSE IF active = NoTokens
           THEN /\ loader' = [l EXCEPT !.call = [pc |-> "fetch", req |-> 0]]
                /\ reqs' = reqs
           ELSE /\ loader' = [l EXCEPT !.call = [pc |-> "fetch",
                                                 req |-> Len(reqs) + 1]]
                /\ reqs' = Append(reqs,
                                  NewRequest([href |-> LoaderUrl(FilePath, now),
                                              dest |-> ""], active))
    /\ UNCHANGED <<store, sw, active>>

\* The fetch of a page no worker controls settles: with a response of the
\* server, or it rejects.
LoadSettleDirect(response) ==
    /\ loader.call.pc = "fetch"
    /\ loader.call.req = 0
    /\ response \in NetResponses(LoaderUrl(FilePath, loader.now)) \cup {Failure}
    /\ loader' = LoadSettled(loader, FilePath, response)
    /\ UNCHANGED <<store, sw, active, reqs>>

\* The fetch of a controlled page settles with what the worker's handler
\* gave to event.respondWith.
LoadSettle ==
    /\ loader.call.pc = "fetch"
    /\ loader.call.req # 0
    /\ reqs[loader.call.req].pc = "done"
    /\ loader' = LoadSettled(loader, FilePath, reqs[loader.call.req].resp)
    /\ UNCHANGED <<store, sw, active, reqs>>

\* The steps of the handler of request i up to its response.
HandlerStep(i) ==
    \/ \E r \in NetResponses(reqs[i].href) : DataFetchResolve(i, r)
    \/ DataFetchReject(i)
    \/ DataCatchMatch(i)
    \/ StaticMatch(i)
    \/ \E r \in NetResponses(reqs[i].href) : StaticFetchResolve(i, r)
    \/ StaticFetchReject(i)
    \/ StaticShellMatch(i)

\* The steps of the write the handler of request i started.
WriteStep(i) ==
    \/ WriteOpen(i)
    \/ WritePut(i)
    \/ WritePutFail(i)

Lifecycle ==
    \/ InstallOpen
    \/ InstallAddAllOk
    \/ InstallAddAllFail
    \/ ActivateStart
    \/ ActivateKeys
    \/ \E name \in sw.toDelete : ActivateDelete(name)
    \/ \E name \in sw.toDelete : ActivateDeleteFail(name)
    \/ ActivateDone
    \/ \E s, d \in FirstToken..(FirstToken + MaxDeploys) : Deploy(Tokens(s, d))

Handlers ==
    \E i \in 1..Len(reqs) :
        \/ \E r \in NetResponses(reqs[i].href) : DataFetchResolve(i, r)
        \/ DataFetchReject(i)
        \/ DataCatchMatch(i)
        \/ StaticMatch(i)
        \/ \E r \in NetResponses(reqs[i].href) : StaticFetchResolve(i, r)
        \/ StaticFetchReject(i)
        \/ StaticShellMatch(i)
        \/ WriteOpen(i)
        \/ WritePut(i)
        \/ WritePutFail(i)

Next ==
    \/ Lifecycle
    \/ \E r \in Requests : Dispatch(r)
    \/ Handlers

Spec == Init /\ [][Next]_vars

\* The steps of the newest worker's install and activate events.  The
\* runtime runs the listeners and every promise they wait for settles: the
\* population fetches succeed or fail, caches.keys() resolves, every
\* caches.delete resolves or rejects.  Nothing is assumed of the pages or of
\* the handlers of fetch events.
Progress ==
    \/ InstallOpen
    \/ InstallAddAllOk
    \/ InstallAddAllFail
    \/ ActivateStart
    \/ ActivateKeys
    \/ \E name \in sw.toDelete : ActivateDelete(name)
    \/ \E name \in sw.toDelete : ActivateDeleteFail(name)
    \/ ActivateDone

\* The deployments with the fetch events of a few pages, under the
\* scheduling above.
NextControllers ==
    \/ Lifecycle
    \/ \E r \in Requests : Len(reqs) < MaxLiveRequests /\ Dispatch(r)
    \/ Handlers

FairSpec == Init /\ [][NextControllers]_vars /\ WF_vars(Progress)

\* ------------------------------------------------------------- the router
\* The same deployments and fetch events, the started writes scheduled: the
\* runtime keeps running the worker, so caches.open resolves and cache.put
\* resolves or rejects.  Nothing is assumed of the network or of the
\* lifecycle events.
FairWriteSpec ==
    /\ Init
    /\ [][NextControllers]_vars
    /\ \A i \in 1..MaxLiveRequests :
          WF_vars(i \in 1..Len(reqs) /\ WriteStep(i))

\* The deployments alone, no page making a request, the activate event
\* dispatched up to MaxRuns times to each worker.
NextActivate ==
    \/ Lifecycle
    \/ ActivateAgain

SpecActivate == Init /\ [][NextActivate]_vars

\* The handler steps of the data branch and the writes.
DataHandlers ==
    \E i \in 1..Len(reqs) :
        \/ \E r \in NetResponses(reqs[i].href) : DataFetchResolve(i, r)
        \/ DataFetchReject(i)
        \/ DataCatchMatch(i)
        \/ WriteOpen(i)
        \/ WritePut(i)
        \/ WritePutFail(i)

\* The page with its DataLoader and the worker it registers: the worker's
\* install and activate events, the loadData calls of the page, one after
\* the other, and the fetch events they cause.
NextLoader ==
    \/ Progress
    \/ \E forceRefresh \in BOOLEAN, delay \in Delays :
          LoadData(forceRefresh, delay)
    \/ \E response \in NetResponses(FilePath) \cup {Failure} :
          LoadSettleDirect(response)
    \/ LoadSettle
    \/ DataHandlers

SpecLoader == Init /\ [][NextLoader]_vars

\* The page asks for the data file again and again, once the request before
\* has been answered, each time with the _t of a later reading of the
\* clock, as DataLoader does for every load that is not served from its own
\* cache.
RequestStamped ==
    /\ Len(reqs) < MaxStamps
    /\ active # NoTokens
    /\ sw.phase \notin {"activate", "deleting"}
    /\ \A j \in 1..Len(reqs) : reqs[j].pc = "done"
    /\ reqs' = Append(reqs,
                      NewRequest([href |-> LoaderUrl(FilePath, Len(reqs) + 1),
                                  dest |-> ""], active))
    /\ UNCHANGED <<store, sw, active, loader>>

NextStamps ==
    \/ Progress
    \/ RequestStamped
    \/ DataHandlers

SpecStamps == Init /\ [][NextStamps]_vars

\* The router alone, tried on every URL of up to MaxSegments path segments
\* with and without a query string, on a worker that has been activated.
RouterSegments == {"data", "characters.json", "jokes.json", "api"}

RouterPaths == UNION {[1..n -> RouterSegments] : n \in 0..MaxSegments}

RouterSearches == {<<>>, <<"?", "_t=1">>, <<"?", "characters.json">>}

RouterUrls == {p \o q : p \in RouterPaths, q \in RouterSearches}

InitRouter ==
    /\ store = <<NewCache(STATIC_CACHE_NAME(Tokens(FirstToken, FirstToken)))>>
    /\ sw = [NewWorker(Tokens(FirstToken, FirstToken), 0)
                EXCEPT !.phase = "activated", !.claimed = TRUE]
    /\ active = Tokens(FirstToken, FirstToken)
    /\ reqs = <<>>
    /\ loader = NewLoader

NextRouter ==
    \E href \in RouterUrls :
        /\ reqs = <<>>
        /\ Dispatch([href |-> href, dest |-> ""])

SpecRouter == InitRouter /\ [][NextRouter]_vars

\* ------------------------------------------------------------- properties
Done(i) == reqs[i].pc = "done"

\* The entry the request's own data generation holds under the request's URL.
OwnDataEntry(i) ==
    CacheMatch(EntriesOf(store, CACHE_NAME(reqs[i].t)), reqs[i].href)

\* The entry the request's own static generation holds under the request's URL.
OwnStaticEntry(i) ==
    CacheMatch(EntriesOf(store, STATIC_CACHE_NAME(reqs[i].t)), reqs[i].href)

\* The responses stored under href, over all generations.
StoredFor(href) ==
    {CacheMatch(store[c].entries, href) : c \in 1..Len(store)} \ {None}

\* The path, with the query string left out, is exactly a data path: the
\* URL is a data path, followed by nothing or by "?" and a query.
IsDataPathThenQuery(href) ==
    \E k \in 1..Len(DATA_FILES) :
        /\ IsPrefix(DATA_FILES[k], href)
        /\ \/ Len(href) = Len(DATA_FILES[k])
           \/ href[Len(DATA_FILES[k]) + 1] = "?"

\* C1: a request takes the data branch (network-first) if and only if its URL
\* path, the query string ignored, is exactly one of the data paths; every
\* other request, a path that only begins with a data path included, takes
\* the static branch (cache-first).
C1_RouterExactMatch ==
    \A i \in 1..Len(reqs) :
        /\ reqs[i].policy = "data" <=> IsDataPathThenQuery(reqs[i].href)
        /\ reqs[i].policy = "static" <=> ~IsDataPathThenQuery(reqs[i].href)
        /\ reqs[i].policy = "data" => reqs[i].pc = "fetch"
        /\ reqs[i].policy = "static" => reqs[i].pc = "match"

\* C1 witness: a data path with a query string was routed to the data branch.
C1_Witness ==
    \E i \in 1..Len(reqs) :
        /\ reqs[i].href = <<"data", "characters.json", "?", "_t=1">>
        /\ reqs[i].policy = "data"

\* C2, as claimed: a data request whose fetch resolves returns the network's
\* response, and once a write into the data generation has completed, an
\* identical request whose fetch fails returns the body that generation holds
\* for it, not the 503 fallback.
C2_OfflineServesStoredBody ==
    [][\A i \in 1..Len(reqs) :
          /\ (\E r \in NetResponses(reqs[i].href) : DataFetchResolve(i, r))
                => reqs'[i].resp = reqs'[i].net
          /\ (DataCatchMatch(i) /\ OwnDataEntry(i) # None)
                => reqs'[i].resp = OwnDataEntry(i)]_vars

\* C3, as claimed: data entries are matched with the query string ignored;
\* when the data generation holds a response stored for the same path under
\* another query string, a request whose fetch fails is answered with a
\* stored response, not with the 503 fallback.
C3_QueryIgnoredOnFallback ==
    [][\A i \in 1..Len(reqs) :
          (/\ DataCatchMatch(i)
           /\ \E k \in DOMAIN EntriesOf(store, CACHE_NAME(reqs[i].t)) :
                 Pathname(k) = Pathname(reqs[i].href))
             => reqs'[i].resp # Offline]_vars

\* C4: when the fetch of a data request fails and no generation holds an entry
\* under the request's URL, the response is the synthetic 503 "Offline", the
\* store is left as it was and no write is started.
C4_OfflineOnMiss ==
    [][\A i \in 1..Len(reqs) :
          (DataCatchMatch(i) /\ StoredFor(reqs[i].href) = {})
             => /\ reqs'[i].resp = [status |-> 503, body |-> "Offline"]
                /\ reqs'[i].pc = "done"
                /\ reqs'[i].write = "none"
                /\ store' = store]_vars

\* C4 witness: a data request ended with the 503 after its fetch failed.
C4_Witness ==
    \E i \in 1..Len(reqs) :
        /\ reqs[i].policy = "data"
        /\ reqs[i].fetch = "rejected"
        /\ Done(i)
        /\ reqs[i].resp.status = 503
        /\ reqs[i].resp.body = "Offline"

C6_StaticHitServesOwnEntry ==
    [][\A i \in 1..Len(reqs) :
          (StaticMatch(i) /\ OwnStaticEntry(i) # None)
             => /\ reqs'[i].resp = OwnStaticEntry(i)
                /\ reqs'[i].pc = "done"
                /\ reqs'[i].fetch = "none"
                /\ store' = store]_vars

\* The URLs cache.addAll(urlsToCache) stores entries under.
IsStaticPath(href) == \E k \in 1..Len(urlsToCache) : href = urlsToCache[k]

\* C7, as claimed: no request for a path of urlsToCache ever issues a network
\* request (requests are dispatched only once install and activate are over).
C7_StaticPathsNeverFetched ==
    \A i \in 1..Len(reqs) :
        IsStaticPath(reqs[i].href) => reqs[i].fetch = "none"

\* C7, amended: once install and activate have completed with the population
\* having succeeded, and while that worker is the newest one, the lookup of
\* a request for exactly a path of urlsToCache hits: a stored entry is
\* returned and no network request is issued; the entry is the static
\* generation's unless an older generation whose deletion failed survives.
C7_PopulatedStaticPathsHit ==
    [][\A i \in 1..Len(reqs) :
          (/\ StaticMatch(i)
           /\ IsStaticPath(reqs[i].href)
           /\ sw.phase = "activated" /\ sw.populated /\ reqs[i].t = sw.t)
             => /\ reqs'[i].pc = "done"
                /\ reqs'[i].fetch = "none"
                /\ reqs'[i].resp \in StoredFor(reqs[i].href)
                /\ sw.failed = {} => reqs'[i].resp = OwnStaticEntry(i)
                /\ store' = store]_vars

\* C7 witness: after a successful population a request for /styles.css was
\* answered with the precached response and without a network request.
C7_Witness ==
    \E i \in 1..Len(reqs) :
        /\ reqs[i].href = <<"styles.css">>
        /\ Done(i)
        /\ reqs[i].fetch = "none"
        /\ reqs[i].resp = Ok(<<"styles.css">>, 1)
        /\ sw.populated

\* C8, as claimed: a document request of the static branch never ends in a
\* failure: the caller gets a live page or the stored /index.html.
C8_DocumentsNeverFail ==
    \A i \in 1..Len(reqs) :
        (reqs[i].policy = "static" /\ reqs[i].dest = "document" /\ Done(i))
            => reqs[i].resp # Failure

\* C8, amended: when a document request of the static branch finds no entry
\* and its fetch fails, the caller receives the /index.html entry of the store
\* (of the first generation holding one), whatever path was requested, when
\* some generation holds one; when none does, the failure surfaces.
C8_ShellWhenStored ==
    [][\A i \in 1..Len(reqs) :
          /\ (StaticFetchReject(i) /\ reqs[i].dest = "document")
                => reqs'[i].pc = "shell"
          /\ (reqs[i].pc = "shell" /\ reqs'[i].pc = "done")
                => /\ reqs[i].dest = "document" /\ reqs[i].fetch = "rejected"
                   /\ IF StoredFor(IndexHref) # {}
                      THEN reqs'[i].resp \in StoredFor(IndexHref)
                      ELSE reqs'[i].resp = Failure
                   /\ store' = store]_vars

\* C8 witness: the navigation to /about, not stored and with its fetch failed,
\* was answered with the stored /index.html.
C8_Witness ==
    \E i \in 1..Len(reqs) :
        /\ reqs[i].href = <<"about">>
        /\ reqs[i].fetch = "rejected"
        /\ Done(i)
        /\ reqs[i].resp = Ok(IndexHref, 1)

\* C9: when a request of the static branch that is no document finds no entry
\* and its fetch fails, no response is substituted: the caller's fetch fails,
\* the store is left as it was and no write is started.
C9_AssetFailureSurfaces ==
    [][\A i \in 1..Len(reqs) :
          (/\ reqs[i].policy = "static" /\ reqs[i].dest # "document"
           /\ reqs[i].pc = "fetch" /\ reqs'[i].fetch = "rejected")
             => /\ reqs'[i].pc = "done"
                /\ reqs'[i].resp = Failure
                /\ reqs'[i].write = "none"
                /\ store' = store]_vars

\* C9 witness: the request for /styles.css ended in a failure.
C9_Witness ==
    \E i \in 1..Len(reqs) :
        /\ reqs[i].href = <<"styles.css">>
        /\ reqs[i].fetch = "rejected"
        /\ Done(i)
        /\ reqs[i].resp = Failure

CurrentNames == {STATIC_CACHE_NAME(sw.t), CACHE_NAME(sw.t)}

\* The detached write of request i has opened (created, when it was missing)
\* the cache called name.
Opened(i, name) ==
    reqs[i].writeTo = name /\ reqs[i].write \in {"put", "done", "failed", "lost"}

\* C10, as claimed: after activate completes the names in the store are
\* exactly the two current names.
C10_ExactlyTheCurrentNames ==
    sw.phase = "activated" => CacheNames(store) = CurrentNames

\* C10, amended: after activate completes the current static name is
\* present; the current data name is present only once a detached write has
\* opened it (it is created lazily); and any other name present is one whose
\* deletion failed, one whose deletion is still pending after another
\* deletion failed, or one that the detached write of a handler of an
\* earlier version opened.
C10_NamesAfterActivate ==
    sw.phase = "activated" =>
        /\ STATIC_CACHE_NAME(sw.t) \in CacheNames(store)
        /\ CACHE_NAME(sw.t) \in CacheNames(store)
              => \E i \in 1..Len(reqs) : Opened(i, CACHE_NAME(sw.t))
        /\ \A name \in CacheNames(store) \ CurrentNames :
              \/ name \in sw.failed \cup sw.toDelete
              \/ \E i \in 1..Len(reqs) : reqs[i].t # sw.t /\ Opened(i, name)

\* C10 witness: activate has completed and the store holds the static
\* generation alone.
C10_Witness ==
    /\ sw.phase = "activated"
    /\ CacheNames(store) = {STATIC_CACHE_NAME(sw.t)}

\* C11, as claimed: in every state after activation has finished, handlers of
\* the previous or the new version and their detached writes still running
\* or not, the store holds no generation under a name other than the two
\* current names.
C11_NoStaleGeneration ==
    sw.phase = "activated" => CacheNames(store) \subseteq CurrentNames

\* C12: when cache.addAll fails during install nothing is stored (the whole
\* population has failed), the failure is logged and goes no further, the
\* install completes, and the worker goes on to activate: the activate
\* listener can run and is the next step of the worker.
C12_PopulationFailureSwallowed ==
    [][/\ (sw.phase = "addAll" /\ sw' # sw /\ ~sw'.populated)
            => /\ sw'.phase = "installed"
               /\ "Cache failed" \in sw'.log
               /\ store' = store
       /\ (sw.phase = "installed" /\ ~sw.populated)
            => /\ ENABLED ActivateStart
               /\ sw' # sw => sw'.phase = "activate"]_vars

\* C12 witness: a worker whose population failed has been activated, its
\* static generation empty.
C12_Witness ==
    /\ sw.phase = "activated"
    /\ ~sw.populated
    /\ "Cache failed" \in sw.log
    /\ HasCache(store, STATIC_CACHE_NAME(sw.t))
    /\ EntriesOf(store, STATIC_CACHE_NAME(sw.t)) = NoEntries

\* The activation of a worker deployed with a new static token finishes.
StaticBumpActivated ==
    ActivateDone /\ sw.n > 0 /\ sw.t.static # active.static

\* C13, as claimed: when install and activate have run after a change of the
\* static token, the old-named static generation is absent and the new-named
\* one holds an entry for every path of urlsToCache and for nothing else.
C13_StaticBumpReplaces ==
    [][StaticBumpActivated
          => /\ ~HasCache(store', STATIC_CACHE_NAME(active))
             /\ DOMAIN EntriesOf(store', STATIC_CACHE_NAME(sw.t))
                   = Range(urlsToCache)]_vars

\* C13, amended: when install and activate have run after a change of the
\* static token, the new-named static generation exists and holds an entry
\* for every path of urlsToCache and for nothing else when the population
\* succeeded, and no entry when it failed; the old-named static generation is
\* absent unless its deletion failed, is still pending after another deletion
\* failed, or a detached write of a handler of the old version re-created it.
C13_StaticBumpOutcome ==
    [][StaticBumpActivated
          => /\ HasCache(store', STATIC_CACHE_NAME(sw.t))
             /\ IF sw.populated
                THEN \E v \in 1..MaxContent :
                        EntriesOf(store', STATIC_CACHE_NAME(sw.t))
                           = [k \in Range(urlsToCache) |-> Ok(k, v)]
                ELSE EntriesOf(store', STATIC_CACHE_NAME(sw.t)) = NoEntries
             /\ HasCache(store', STATIC_CACHE_NAME(active))
                   => \/ STATIC_CACHE_NAME(active) \in sw.failed \cup sw.toDelete
                      \/ \E i \in 1..Len(reqs) :
                            /\ reqs[i].t # sw.t
                            /\ Opened(i, STATIC_CACHE_NAME(active))]_vars

\* C13 witness: after a change of the static token the old static generation
\* is gone and the new one holds exactly the paths of urlsToCache.
C13_Witness ==
    /\ sw.phase = "activated"
    /\ sw.n = 1
    /\ sw.t.static = FirstToken + 1
    /\ ~HasCache(store, CacheName("friday-saga-static", FirstToken))
    /\ DOMAIN EntriesOf(store, STATIC_CACHE_NAME(sw.t)) = Range(urlsToCache)

\* C14: the two generations are independent.  No step of a worker's install
\* or activate creates, deletes or changes the generation under the data name
\* of that worker (after a deployment that changed the static token only,
\* the data generation there was), and none deletes the generation under its
\* static name (after a deployment that changed the data token only, the
\* static generation there was) or removes an entry of it: the entries of
\* urlsToCache are stored again by install, every other entry is left as is.
C14_IndependentGenerations ==
    [][sw' # sw
          => /\ HasCache(store', CACHE_NAME(sw.t)) = HasCache(store, CACHE_NAME(sw.t))
             /\ EntriesOf(store', CACHE_NAME(sw.t)) = EntriesOf(store, CACHE_NAME(sw.t))
             /\ HasCache(store, STATIC_CACHE_NAME(sw.t))
                   => /\ HasCache(store', STATIC_CACHE_NAME(sw.t))
                      /\ \A k \in DOMAIN EntriesOf(store, STATIC_CACHE_NAME(sw.t)) :
                            /\ k \in DOMAIN EntriesOf(store', STATIC_CACHE_NAME(sw.t))
                            /\ k \notin Range(urlsToCache)
                                  => EntriesOf(store', STATIC_CACHE_NAME(sw.t))[k]
                                        = EntriesOf(store, STATIC_CACHE_NAME(sw.t))[k]]_vars

\* C14 witness: a deployment that changed the static token only has been
\* activated, and the data generation still holds the response stored before.
C14_Witness ==
    /\ sw.phase = "activated"
    /\ sw.n = 1
    /\ sw.t = Tokens(FirstToken + 1, FirstToken)
    /\ CacheMatch(EntriesOf(store, CACHE_NAME(sw.t)), DataHref \o <<"?", "_t=1">>)
          = Ok(DataHref, 1)

\* C15: when the fetch of a data request resolves, the handler returns in
\* that very step the response the network produced, the store write only
\* started; and whatever the write does afterwards (not started, opened,
\* completed, failed, lost), the response delivered stays that response.
C15_LiveResponseWhateverTheWrite ==
    [][\A i \in 1..Len(reqs) :
          /\ (/\ reqs[i].policy = "data" /\ reqs[i].pc = "fetch"
              /\ reqs'[i].fetch = "resolved")
                => /\ reqs'[i].net \in NetResponses(reqs[i].href)
                   /\ reqs'[i].resp = reqs'[i].net
                   /\ reqs'[i].pc = "done"
                   /\ reqs'[i].write = "open"
                   /\ store' = store
          /\ (reqs[i].policy = "data" /\ reqs[i].fetch = "resolved")
                => /\ reqs'[i].resp = reqs[i].net
                   /\ reqs'[i].net = reqs[i].net
                   /\ reqs'[i].pc = "done"]_vars

\* C15 witness: a data request was answered with the network's response and
\* its store write failed afterwards.
C15_Witness ==
    \E i \in 1..Len(reqs) :
        /\ reqs[i].policy = "data"
        /\ reqs[i].fetch = "resolved"
        /\ reqs[i].write = "failed"
        /\ reqs[i].resp = Ok(reqs[i].href, 1)

\* C16: when a request of the static branch found no entry and its fetch
\* resolves, the handler returns the network's response and starts, without
\* waiting for it, a write to the static generation; when that write
\* completes the generation holds a copy of the response under the request's
\* URL; and as long as the generation holds it, the lookup of a later
\* request for the same URL hits: a stored response is returned and no
\* network request is made.
C16_StaticMissStoresCopy ==
    [][\A i \in 1..Len(reqs) :
          /\ (/\ reqs[i].policy = "static" /\ reqs[i].pc = "fetch"
              /\ reqs'[i].fetch = "resolved")
                => /\ reqs'[i].net \in NetResponses(reqs[i].href)
                   /\ reqs'[i].resp = reqs'[i].net
                   /\ reqs'[i].pc = "done"
                   /\ reqs'[i].write = "open"
                   /\ reqs'[i].writeTo = STATIC_CACHE_NAME(reqs[i].t)
                   /\ store' = store
          /\ (/\ reqs[i].policy = "static" /\ reqs[i].write = "put"
              /\ reqs'[i].write = "done")
                => CacheMatch(EntriesOf(store', STATIC_CACHE_NAME(reqs[i].t)),
                              reqs[i].href) = reqs[i].net
          /\ (/\ StaticMatch(i)
              /\ \E j \in 1..Len(reqs) :
                    /\ reqs[j].policy = "static" /\ reqs[j].write = "done"
                    /\ reqs[j].href = reqs[i].href
                    /\ CacheMatch(EntriesOf(store, reqs[j].writeTo), reqs[j].href)
                          # None)
                => /\ reqs'[i].pc = "done"
                   /\ reqs'[i].fetch = "none"
                   /\ reqs'[i].resp \in StoredFor(reqs[i].href)]_vars

\* C16 witness: /about was fetched and stored by a first request, and a
\* second request for /about was answered with the stored copy, no network
\* request made.
C16_Witness ==
    \E i, j \in 1..Len(reqs) :
        /\ reqs[i].href = <<"about">> /\ reqs[j].href = <<"about">>
        /\ reqs[i].fetch = "resolved" /\ reqs[i].write = "done"
        /\ Done(j) /\ reqs[j].fetch = "none"
        /\ reqs[j].resp = reqs[i].net

\* C17, as claimed: during activate the cleanup comes first and the claim of
\* the client contexts after it: contexts are claimed only once the cleanup
\* is over, and never while a generation with a non-current name is in the
\* store.
C17_CleanupBeforeClaim ==
    sw.claimed => /\ sw.phase = "activated"
                  /\ CacheNames(store) \subseteq CurrentNames

\* C17, amended: during activate the claim of the client contexts is issued
\* first, when the activate listener starts and before anything is deleted:
\* the step that starts the listener claims the contexts and leaves the store
\* as it is, and every deletion of a generation comes after the claim.
C17_ClaimBeforeCleanup ==
    [][/\ (sw.phase = "installed" /\ sw' # sw)
            => /\ sw'.phase = "activate"
               /\ sw'.claimed
               /\ sw'.toDelete = {}
               /\ store' = store
       /\ Len(store') < Len(store) => sw.claimed]_vars

\* C17 witness: the contexts are claimed while the generation of the earlier
\* revision, whose deletion has been requested, is still in the store.
C17_Witness ==
    /\ sw.claimed
    /\ sw.phase = "deleting"
    /\ LegacyName \in sw.toDelete
    /\ HasCache(store, LegacyName)

\* C18: the activate listener, and with it the cleanup, starts only from a
\* worker whose install has completed, the population having succeeded or
\* its failure having been swallowed; until then no deletion is requested
\* and no generation is deleted by the worker.
C18_CleanupAfterInstall ==
    [][/\ (sw'.phase = "activate" /\ sw.phase # "activate")
            => /\ sw.phase = "installed"
               /\ sw.populated \/ "Cache failed" \in sw.log
       /\ (sw'.phase \in {"install", "addAll", "installed"})
            => /\ sw'.toDelete = {}
               /\ Len(store') >= Len(store)]_vars

\* C18 witness: the cleanup is running for a worker whose population failed.
C18_Witness ==
    /\ sw.phase = "deleting"
    /\ sw.toDelete # {}
    /\ ~sw.populated
    /\ "Cache failed" \in sw.log

\* C19: a worker that received install, and whose population and deletes
\* settle, eventually is the active one, also when it replaces a version
\* whose contexts never close and whose handlers never finish.
C19_InstalledReachesActive ==
    (sw.phase = "install") ~> (sw.phase = "activated" /\ active = sw.t)

\* C19 witness: the worker of a second deployment is active while a handler
\* of the version it replaced is still running.
C19_Witness ==
    /\ sw.n = 1
    /\ sw.phase = "activated"
    /\ active = sw.t
    /\ \E i \in 1..Len(reqs) : reqs[i].t # sw.t /\ ~Done(i)

\* C20, as claimed: when the deletion of a stale generation fails during
\* activate, the failure is logged, the worker still reaches the active
\* state, and the deletions of the other stale generations stay requested.
C20_DeleteFailureLoggedAndContinue ==
    [][sw'.failed # sw.failed
          => /\ sw'.log # sw.log
             /\ sw'.phase \in {"deleting", "activated"}
             /\ sw'.toDelete = sw.toDelete \ sw'.failed]_vars

\* Another handler has received the network's response for the same URL and
\* its write has not been made yet.
WriteInFlightFor(i) ==
    \E j \in 1..Len(reqs) :
        /\ j # i
        /\ reqs[j].href = reqs[i].href
        /\ reqs[j].fetch = "resolved"
        /\ reqs[j].write \in {"open", "put"}

\* C21: the response of the network is delivered in a step that leaves the
\* store as it was, the write only started; and while that write has not
\* been made and no generation holds the URL, the lookup of a second request
\* for the same URL misses: a data request with the network down gets the
\* 503 "Offline", a static request goes to the network again.
C21_MissBeforeWriteLands ==
    [][\A i \in 1..Len(reqs) :
          /\ (reqs[i].pc = "fetch" /\ reqs'[i].fetch = "resolved")
                => /\ store' = store
                   /\ reqs'[i].pc = "done"
                   /\ reqs'[i].write = "open"
          /\ (/\ DataCatchMatch(i) /\ WriteInFlightFor(i)
              /\ StoredFor(reqs[i].href) = {})
                => reqs'[i].resp = Offline
          /\ (/\ StaticMatch(i) /\ WriteInFlightFor(i)
              /\ StoredFor(reqs[i].href) = {})
                => /\ reqs'[i].pc = "fetch"
                   /\ reqs'[i].fetch = "pending"]_vars

\* C21 witness: a data request was answered by the network with a 200, its
\* write is not made yet, and a second request for the same URL, its fetch
\* failed, was answered with the 503 "Offline".
C21_Witness ==
    \E i, j \in 1..Len(reqs) :
        /\ i < j
        /\ reqs[i].href = DataHref \o <<"?", "_t=1">>
        /\ reqs[j].href = reqs[i].href
        /\ Done(i) /\ reqs[i].resp = Ok(reqs[i].href, 1)
        /\ reqs[i].write \in {"open", "put"}
        /\ Done(j) /\ reqs[j].fetch = "rejected" /\ reqs[j].resp = Offline

\* The responses the handlers' completed writes stored under href.
WrittenFor(href) ==
    {reqs[j].net : j \in {k \in 1..Len(reqs) :
                             reqs[k].href = href /\ reqs[k].write = "done"}}

\* The responses cache.addAll, of this or of the earlier revision, stores
\* under href.
PrecachedFor(href) ==
    IF href \in Range(LegacyUrls)
    THEN {Ok(href, v) : v \in 0..MaxContent}
    ELSE {}

\* C23: every entry of every generation is the whole response the network
\* returned for the entry's own URL, stored by cache.addAll or by the
\* completed write of a handler that received it; the 503 "Offline" and the
\* /index.html returned in place of another document are stored under no
\* URL they were returned for.
C23_EntriesAreNetworkResponses ==
    \A c \in 1..Len(store) :
        \A k \in DOMAIN store[c].entries :
            /\ store[c].entries[k] \in WrittenFor(k) \cup PrecachedFor(k)
            /\ store[c].entries[k] \in
                  NetResponses(k) \cup {Ok(k, 0)}
            /\ store[c].entries[k] # Offline
            /\ store[c].entries[k].body[1] = Pathname(k)

\* C23 witness: a data request was answered with the 503 "Offline" and
\* /about with the stored /index.html, while the store holds entries written
\* by handlers, none of them one of these substitutes.
C23_Witness ==
    /\ \E i \in 1..Len(reqs) :
          /\ reqs[i].href = <<"about">>
          /\ reqs[i].fetch = "rejected"
          /\ reqs[i].resp = Ok(IndexHref, 1)
    /\ \E j \in 1..Len(reqs) : reqs[j].write = "done"
    /\ \A c \in 1..Len(store) : <<"about">> \notin DOMAIN store[c].entries

\* C24, as claimed: each branch reads its own generation only.  The fallback
\* of the data branch answers with the entry the current data generation
\* holds under the request's URL, and with the 503 when it holds none; a hit
\* of the static branch is the entry of the current static generation.
C24_OwnGenerationOnly ==
    [][\A i \in 1..Len(reqs) :
          /\ DataCatchMatch(i)
                => reqs'[i].resp = OrOffline(OwnDataEntry(i))
          /\ (StaticMatch(i) /\ reqs'[i].pc = "done")
                => /\ OwnStaticEntry(i) # None
                   /\ reqs'[i].resp = OwnStaticEntry(i)]_vars

\* C26: the handlers are independent.  Whatever the other requests are
\* waiting for, a request that has no response yet has a step of its own
\* that can be taken, a write that was started can go on, and the worker can
\* take the next step of its install or activate event: a fetch that never
\* settles holds back the request that issued it and nothing else.
C26_HungFetchBlocksOnlyItself ==
    /\ \A j \in 1..Len(reqs) :
          /\ ~Done(j) => ENABLED HandlerStep(j)
          /\ reqs[j].write \in {"open", "put"} => ENABLED WriteStep(j)
    /\ sw.phase # "activated" => ENABLED Progress
    /\ sw.toDelete # {} => ENABLED Progress

\* C26 witness: the fetch of the first request has not settled, the second
\* request, received after it, has its response from the network and its
\* write is made, and the worker has been activated meanwhile.
C26_Witness ==
    /\ Len(reqs) = 2
    /\ reqs[1].pc = "fetch" /\ reqs[1].fetch = "pending"
    /\ reqs[1].href = <<"styles.css">>
    /\ reqs[2].href = <<"styles.css">>
    /\ Done(2) /\ reqs[2].resp = Ok(reqs[2].href, 1)
    /\ reqs[2].write = "done"
    /\ sw.phase = "activated" /\ sw.runs = 1

\* C28, as claimed: of two responses received for the same data URL, both
\* writes made, the generation holds the one received later.
C28_NewerResponseStays ==
    \A i, j \in 1..Len(reqs) :
        (/\ reqs[i].policy = "data" /\ reqs[j].policy = "data"
         /\ reqs[i].href = reqs[j].href
         /\ reqs[i].writeTo = reqs[j].writeTo
         /\ reqs[i].write = "done" /\ reqs[j].write = "done"
         /\ reqs[i].seq < reqs[j].seq
         /\ OwnDataEntry(j) # None)
            => OwnDataEntry(j) = reqs[j].net

\* C28, amended: the generation holds the response of the put that was made
\* last.  Every put replaces the entry under its request's URL by the
\* response its own handler received, whichever response is there and
\* whenever that one was received, and leaves every other entry alone.
C28_LastPutWins ==
    [][\A i \in 1..Len(reqs) :
          WritePut(i)
            => /\ CacheMatch(EntriesOf(store', reqs[i].writeTo),
                             reqs[i].href) = reqs[i].net
               /\ \A c \in 1..Len(store) :
                     \A k \in DOMAIN store[c].entries :
                        (store[c].name # reqs[i].writeTo \/ k # reqs[i].href)
                           => /\ k \in DOMAIN store'[c].entries
                              /\ store'[c].entries[k] = store[c].entries[k]
      ]_vars

\* C28 witness: two requests for the same data URL received different
\* responses, both writes are made, and the generation holds the response
\* received first.
C28_Witness ==
    \E i, j \in 1..Len(reqs) :
        /\ reqs[i].policy = "data" /\ reqs[j].policy = "data"
        /\ reqs[i].href = reqs[j].href
        /\ reqs[i].write = "done" /\ reqs[j].write = "done"
        /\ reqs[i].seq < reqs[j].seq
        /\ reqs[i].net # reqs[j].net
        /\ OwnDataEntry(j) = reqs[i].net

\* C29, as claimed: the write of the data branch stores the response the
\* network returned whatever its status, in place of the entry the
\* generation held; and when the generation holds a response that is not OK
\* under the request's URL, the fallback returns that response.
C29_NonOkStoredAndServed ==
    [][\A i \in 1..Len(reqs) :
          /\ (WritePut(i) /\ reqs[i].policy = "data")
                => CacheMatch(EntriesOf(store', reqs[i].writeTo),
                              reqs[i].href) = reqs[i].net
          /\ (/\ DataCatchMatch(i)
              /\ OwnDataEntry(i) # None
              /\ OwnDataEntry(i).status # 200)
                => reqs'[i].resp = OwnDataEntry(i)]_vars

\* The entry the generation request i writes to holds under the request's URL.
WrittenEntry(i) ==
    CacheMatch(EntriesOf(store, reqs[i].writeTo), reqs[i].href)

C27_SecondRunDeletesNothing ==
    [][sw.runs >= 2 => CacheNames(store') = CacheNames(store)]_vars

\* C25, as claimed: the data generation never holds more entries than there
\* are data paths, whatever the query strings of the requests.
C25_DataGenerationBounded ==
    Cardinality(DOMAIN EntriesOf(store, CACHE_NAME(sw.t))) <= Len(DATA_FILES)

\* C30: a loadData call whose fetch rejected or was answered with a response
\* that is not OK, the worker's 503 "Offline" included, returns the value
\* cached for the file when there is one, whatever its age, and throws when
\* there is none; the cached value and its timestamp stay as they were.
C30_FailedLoadFallsBackToCache ==
    [][(/\ loader.call.pc = "fetch"
        /\ loader'.call.pc = "idle"
        /\ loader.call.req # 0 => loader'.response = reqs[loader.call.req].resp
        /\ loader'.response.status # 200)
          => /\ loader'.ret = IF FilePath \in DOMAIN loader.cache
                              THEN Return(loader.cache[FilePath])
                              ELSE Throw
             /\ loader'.cache = loader.cache
             /\ loader'.cacheTimestamps = loader.cacheTimestamps]_vars

\* C30 witness: a call made when the cached value was no longer fresh was
\* answered by the worker with the 503 "Offline" and returned the cached
\* value.
C30_Witness ==
    /\ loader.call.pc = "idle"
    /\ loader.response = Offline
    /\ FilePath \in DOMAIN loader.cache
    /\ loader.now - loader.cacheTimestamps[FilePath] >= CACHE_DURATION
    /\ loader.ret = Return(loader.cache[FilePath])

====
